---------------------------- MODULE Spec2Model ----------------------------
(***************************************************************************)
(* Model of ifx_predictor.py: a Streamlit script that collects thirteen    *)
(* feature values, loads a classifier and a scaler through a process-wide  *)
(* st.cache_resource cache, runs scaler.transform / model.predict_proba /  *)
(* model.predict and keeps the labelled result in st.session_state.        *)
(*                                                                         *)
(* Numbers are held in hundredths (1.8 is 180).  A Python value is a       *)
(* record [t, c, v]: t its Python type ("float", "int", "str"), c what it  *)
(* holds ("num" a finite number, "nan", "inf", "text" a string that is no  *)
(* number), v the number in hundredths.                                    *)
(*                                                                         *)
(* Spec is the application: several sessions rerun the script on widget    *)
(* interactions and share the cache.  SpecCore is the button handler of    *)
(* one session under a caller that supplies any inputs dict.               *)
(***************************************************************************)
EXTENDS Integers, Sequences, FiniteSets, TLC

\* Number of browser sessions served by the one Streamlit process.
NumSessions == 2

\* Largest class value the opaque classifier may return (0 .. MaxClass).
MaxClass == 2

Sessions == 1..NumSessions

Range(f) == {f[i] : i \in DOMAIN f}

----------------------------------------------------------------------------
(* Python values *)

Float(x) == [t |-> "float", c |-> "num", v |-> x]

PyInt(x) == [t |-> "int", c |-> "num", v |-> x]

----------------------------------------------------------------------------
(* features, lines 35-49: key, constraint kind and bounds, in dict order.  *)
(* "range" is a (min, max) tuple, "single" a lone default, "intrange" the  *)
(* integer tuple of 'Lesion site'.                                         *)

features ==
  << [key |-> "Fg",          kind |-> "range",    min |-> 180,   max |-> 450,    default |-> 0],
     [key |-> "CDAI",        kind |-> "range",    min |-> 0,     max |-> 60000,  default |-> 0],
     [key |-> "APTT",        kind |-> "single",   min |-> 0,     max |-> 0,      default |-> 2000],
     [key |-> "eGFR",        kind |-> "range",    min |-> 3000,  max |-> 12000,  default |-> 0],
     [key |-> "D-Dimer",     kind |-> "single",   min |-> 0,     max |-> 0,      default |-> 50],
     [key |-> "ALB",         kind |-> "range",    min |-> 3500,  max |-> 5500,   default |-> 0],
     [key |-> "Dose",        kind |-> "range",    min |-> 20000, max |-> 100000, default |-> 0],
     [key |-> "WBC",         kind |-> "range",    min |-> 400,   max |-> 1000,   default |-> 0],
     [key |-> "Age",         kind |-> "range",    min |-> 1800,  max |-> 8000,   default |-> 0],
     [key |-> "AST",         kind |-> "range",    min |-> 800,   max |-> 4000,   default |-> 0],
     [key |-> "ALT",         kind |-> "range",    min |-> 700,   max |-> 5600,   default |-> 0],
     [key |-> "ADA",         kind |-> "single",   min |-> 0,     max |-> 0,      default |-> 400],
     [key |-> "Lesion site", kind |-> "intrange", min |-> 100,   max |-> 500,    default |-> 0] >>

\* features.items() iterates the keys in insertion order (line 56).
FeatureKeys == [i \in 1..Len(features) |-> features[i].key]

\* feature_order, lines 120-124.
feature_order ==
  << "Fg", "CDAI", "APTT", "eGFR", "D-Dimer",
     "ALB", "Dose", "WBC", "Age", "AST",
     "ALT", "ADA", "Lesion site" >>

----------------------------------------------------------------------------
(* Sidebar widgets, lines 52-89.  pos is where the user leaves the widget: *)
(* "default" (untouched), "min" or "max" (dragged to an end; a             *)
(* number_input has no upper end, "max" stands for twice its default).     *)

\* The positions tried when several sessions run side by side.
WidgetPositions == {"default", "max"}

\* st.slider(..., step=1, format="%d") on the integer tuple, lines 58-69:
\* the value is an int, initially (min_val + max_val) // 2.
IntSlider(f, pos) ==
  CASE pos = "default" -> PyInt((((f.min \div 100) + (f.max \div 100)) \div 2) * 100)
    [] pos = "min"     -> PyInt(f.min)
    [] OTHER           -> PyInt(f.max)

\* st.slider on float(min_val), float(max_val), lines 71-80: a float,
\* initially (min_val + max_val) / 2.
FloatSlider(f, pos) ==
  CASE pos = "default" -> Float((f.min + f.max) \div 2)
    [] pos = "min"     -> Float(f.min)
    [] OTHER           -> Float(f.max)

\* st.number_input(value=float(default), min_value=0.0), lines 82-89.
NumberInput(f, pos) ==
  CASE pos = "default" -> Float(f.default)
    [] pos = "min"     -> Float(0)
    [] OTHER           -> Float(2 * f.default)

Widget(f, pos) ==
  IF f.key = "Lesion site" THEN IntSlider(f, pos)
  ELSE IF f.kind = "range" THEN FloatSlider(f, pos)
  ELSE NumberInput(f, pos)

\* The inputs dict built by the sidebar loop: a dict is its keys in
\* insertion order and the value of each.
SidebarInputs(pos) ==
  [order |-> FeatureKeys,
   vals  |-> [k \in Range(FeatureKeys) |->
                Widget(CHOOSE f \in Range(features) : f.key = k, pos)]]

----------------------------------------------------------------------------
(* pandas, line 127: pd.DataFrame([inputs])[feature_order].astype(float)   *)
(* A one-row frame is its column labels in order and the row's value under *)
(* each label.  A step that raises returns the exception's name in exc.    *)

\* pd.DataFrame([inputs]): one column per dict key, in the dict's order.
DataFrame(inp) == [exc |-> "none", columns |-> inp.order, row |-> inp.vals]

\* df[cols], mutated: the first Len(cols) columns by position.
SelectColumns_ByPosition(df, cols) ==
  IF Len(df.columns) < Len(cols)
  THEN [exc |-> "KeyError", columns |-> << >>, row |-> df.row]
  ELSE LET first == SubSeq(df.columns, 1, Len(cols)) IN
       [exc |-> "none", columns |-> first,
        row |-> [k \in Range(first) |-> df.row[k]]]

\* df[cols]: the columns named by cols, by label, in cols' order; KeyError
\* when a label is no column of df.
SelectColumns(df, cols) ==
  IF \E i \in DOMAIN cols : cols[i] \notin Range(df.columns)
  THEN [exc |-> "KeyError", columns |-> << >>, row |-> df.row]
  ELSE [exc |-> "none", columns |-> cols,
        row |-> [k \in Range(cols) |-> df.row[k]]]

\* float(x) on one value: an int or a float converts, a string converts if
\* it spells a number ("nan" and "inf" included); NaN and infinity are floats.
ToFloat(x) == [t |-> "float", c |-> x.c, v |-> x.v]

\* .astype(float): ValueError when a value of a selected column is a string
\* that spells no number.
AsTypeFloat(df) ==
  IF \E i \in DOMAIN df.columns : df.row[df.columns[i]].c = "text"
  THEN [exc |-> "ValueError", columns |-> df.columns, row |-> df.row]
  ELSE [exc |-> "none", columns |-> df.columns,
        row |-> [k \in DOMAIN df.row |-> ToFloat(df.row[k])]]

\* The row of the frame as the array scaler.transform receives.
ToVector(df) == [i \in 1..Len(df.columns) |-> df.row[df.columns[i]]]

----------------------------------------------------------------------------
(* load_components, lines 17-28 *)

\* The state of a .pkl file on disk.
FileStatus == {"ok", "missing", "corrupt"}

ModelFile == "ifx_ensemble_model.pkl"

ScalerFile == "ifx_scaler.pkl"

\* Python None / a loaded object: id 0 is None, id n the object made by the
\* n-th run of load_components' body.
PyNone == [id |-> 0]

\* joblib.load(path): the object, FileNotFoundError for a missing file, some
\* other exception for a file that does not unpickle.
JoblibLoad(status, serial) ==
  CASE status = "ok"      -> [exc |-> "none", obj |-> [id |-> serial]]
    [] status = "missing" -> [exc |-> "FileNotFoundError", obj |-> PyNone]
    [] OTHER              -> [exc |-> "UnpicklingError", obj |-> PyNone]

\* st.error(...) of lines 24 and 27: the kind of message, the file names it
\* spells out and the exception text it embeds.
NotFoundMessage ==
  [kind |-> "NotFound", names |-> {ModelFile, ScalerFile}, cause |-> ""]

LoadFailedMessage(e) == [kind |-> "LoadFailed", names |-> {}, cause |-> e]

\* Lines 23-28, mutated: no separate FileNotFoundError clause.
LoadExcept_Generic(e) ==
  [model |-> PyNone, scaler |-> PyNone, msgs |-> {LoadFailedMessage(e)}]

\* The except clauses of lines 23-28.
LoadExcept(e) ==
  IF e = "FileNotFoundError"
  THEN [model |-> PyNone, scaler |-> PyNone, msgs |-> {NotFoundMessage}]
  ELSE [model |-> PyNone, scaler |-> PyNone, msgs |-> {LoadFailedMessage(e)}]

\* The body of load_components: the model first, then the scaler.
load_components(fs, serial) ==
  LET m == JoblibLoad(fs.model, serial) IN
  IF m.exc # "none" THEN LoadExcept(m.exc)
  ELSE LET sc == JoblibLoad(fs.scaler, serial) IN
       IF sc.exc # "none" THEN LoadExcept(sc.exc)
       ELSE [model |-> m.obj, scaler |-> sc.obj, msgs |-> {}]

----------------------------------------------------------------------------
(* The classifier and the scaler are opaque artifacts: what one call       *)
(* chain does is an outcome o = [fail, exc, proba, pred]: fail names the   *)
(* call that raises ("none" if none does), exc the exception, proba the    *)
(* row predict_proba returns (hundredths) and pred the class predict       *)
(* returns.                                                                *)

Probas == { <<30, 70>>, <<90, 10>>, <<50, 50>> }

ArtifactExcs == {"ValueError", "AttributeError"}

OutcomesOver(probas, classes, calls, excs) ==
  { [exc |-> "none", fail |-> "none", proba |-> p, pred |-> c] :
      p \in probas, c \in classes }
  \cup
  { [exc |-> e, fail |-> f, proba |-> <<0, 0>>, pred |-> 0] :
      f \in calls, e \in excs }

\* Every outcome, for a single caller.
Outcomes ==
  OutcomesOver(Probas, 0..MaxClass, {"transform", "predict_proba", "predict"},
               ArtifactExcs)

\* The outcomes tried when several sessions run side by side.
SessionOutcomes ==
  OutcomesOver({<<30, 70>>}, {0, 1}, {"transform"}, {"AttributeError"})

\* Truth value of a component in 'if model and scaler' (line 117): None is
\* false, a loaded (fitted) estimator is true.
Truthy(obj) == obj.id # 0

TherapeuticLabel == "therapeutic (>=3 ug/ml)"

LowLabel == "low (<3 ug/ml)"

\* Line 137, mutated: always the positive-class probability.
Probability_AlwaysPositive(prediction, proba) == proba[2]

\* Line 137: proba[1] if prediction == 1 else proba[0] (Python indexes from
\* 0, a TLA+ sequence from 1).
Probability(prediction, proba) ==
  IF prediction = 1 THEN proba[2] ELSE proba[1]

\* Line 141, mutated: a third label for a class that is neither 0 nor 1.
ClassLabel_Unknown(prediction) ==
  CASE prediction = 1 -> TherapeuticLabel
    [] prediction = 0 -> LowLabel
    [] OTHER          -> "unknown"

\* Line 141: the label stored under 'class'.
ClassLabel(prediction) ==
  IF prediction = 1 THEN TherapeuticLabel ELSE LowLabel

NoPrediction == [set |-> FALSE, class |-> "", probability |-> 0]

\* The body of the try block, lines 119-143, on the inputs dict and one
\* outcome of the artifacts: the exception raised ("none"), the calls made
\* on the artifacts, the array handed to scaler.transform and the dict to
\* store in st.session_state.prediction.
TryBody(inp, o) ==
  LET sel == SelectColumns(DataFrame(inp), feature_order)
      flt == AsTypeFloat(sel)
      none == [raised |-> "none", reached |-> {}, xarg |-> << >>,
               result |-> NoPrediction]
  IN  IF sel.exc # "none" THEN [none EXCEPT !.raised = sel.exc]
      ELSE IF flt.exc # "none" THEN [none EXCEPT !.raised = flt.exc]
      ELSE LET vec == ToVector(flt) IN
        CASE o.fail = "transform" ->
               [none EXCEPT !.raised = o.exc, !.reached = {"transform"},
                            !.xarg = vec]
          [] o.fail = "predict_proba" ->
               [none EXCEPT !.raised = o.exc,
                            !.reached = {"transform", "predict_proba"},
                            !.xarg = vec]
          [] o.fail = "predict" ->
               [none EXCEPT !.raised = o.exc,
                            !.reached = {"transform", "predict_proba", "predict"},
                            !.xarg = vec]
          [] OTHER ->
               [raised  |-> "none",
                reached |-> {"transform", "predict_proba", "predict"},
                xarg    |-> vec,
                result  |-> [set         |-> TRUE,
                             class       |-> ClassLabel(o.pred),
                             probability |-> Probability(o.pred, o.proba)]]

\* 'except Exception' (line 145), mutated: only ValueError and KeyError.
HandlerCatches_Narrow(e) == e \in {"ValueError", "KeyError"}

\* 'except Exception' (line 145) catches every exception the try body can
\* raise.
HandlerCatches(e) == TRUE

\* st.error of line 146.
PredictErrorMessage(e) == [kind |-> "PredictError", names |-> {}, cause |-> e]

----------------------------------------------------------------------------
(* State *)

VARIABLES
  files,       \* the two .pkl files on disk: [model, scaler], each a FileStatus
  cache,       \* st.cache_resource's entry for load_components()
  lock,        \* the sessions holding the entry's compute lock
  loads,       \* how many times load_components' body has run
  pc,          \* per session: where its script run stands
  inputs,      \* per session: the inputs dict of the current run
  got,         \* per session: what load_components() returned in this run
  prediction,  \* per session: st.session_state.prediction
  errs,        \* per session: the st.error messages shown in this run
  reached,     \* per session: the artifact calls made in this run
  xarg,        \* per session: the array handed to scaler.transform in this run
  raised,      \* per session: the exception raised in the try block of this run
  clsOut,      \* per session: what predict / predict_proba returned in this run
               \* (got, reached, xarg, raised and clsOut are a run's locals:
               \* they are gone when the run ends)
  shown        \* per session: the result card rendered by this run

vars == << files, cache, lock, loads, pc, inputs, got, prediction, errs,
           reached, xarg, raised, clsOut, shown >>

EmptyCache == [model |-> PyNone, scaler |-> PyNone, msgs |-> {}, present |-> FALSE]

NotCalled == [model |-> PyNone, scaler |-> PyNone, msgs |-> {}, called |-> FALSE]

NoOutput == [proba |-> <<0, 0>>, pred |-> 0]

NoCard == [set |-> FALSE, class |-> "", percent |-> 0, status_icon |-> ""]

\* The state once every session has had its first script run: lines 31-32
\* set st.session_state.prediction to None, the widgets hold their defaults,
\* no button was pressed and nothing is cached.
Init ==
  /\ files \in [model : FileStatus, scaler : FileStatus]
  /\ cache = EmptyCache
  /\ lock = {}
  /\ loads = 0
  /\ pc = [s \in Sessions |-> "idle"]
  /\ inputs = [s \in Sessions |-> SidebarInputs("default")]
  /\ got = [s \in Sessions |-> NotCalled]
  /\ prediction = [s \in Sessions |-> NoPrediction]
  /\ errs = [s \in Sessions |-> {}]
  /\ reached = [s \in Sessions |-> {}]
  /\ xarg = [s \in Sessions |-> << >>]
  /\ raised = [s \in Sessions |-> "none"]
  /\ clsOut = [s \in Sessions |-> NoOutput]
  /\ shown = [s \in Sessions |-> NoCard]

----------------------------------------------------------------------------
(* One script run of a session, top to bottom *)

\* A new run starts with fresh page elements and a fresh inputs dict;
\* st.session_state and the process-wide cache carry over.
StartRun(s, inp, clicked) ==
  /\ pc[s] = "idle"
  /\ inputs' = [inputs EXCEPT ![s] = inp]
  /\ errs' = [errs EXCEPT ![s] = {}]
  /\ shown' = [shown EXCEPT ![s] = NoCard]
  /\ pc' = [pc EXCEPT ![s] = IF clicked THEN "lookup" ELSE "display"]
  /\ UNCHANGED << files, cache, lock, loads, prediction, got, reached, xarg,
                  raised, clsOut >>

\* A widget interaction reruns the script: the sidebar loop (lines 52-89)
\* rebuilds inputs, st.button (line 114) is true only in the run its click
\* started.
Rerun(s) ==
  \E pos \in WidgetPositions, clicked \in BOOLEAN :
    StartRun(s, SidebarInputs(pos), clicked)

\* @st.cache_resource (line 17), mutated: the result of a failed load is
\* not kept.
CacheEntry_SkipFailure(r) ==
  IF r.model = PyNone \/ r.scaler = PyNone THEN EmptyCache
  ELSE [model |-> r.model, scaler |-> r.scaler, msgs |-> r.msgs, present |-> TRUE]

\* @st.cache_resource (line 17): the entry kept for a return value, together
\* with the st.error elements the body showed, whatever the value is.
CacheEntry(r) ==
  [model |-> r.model, scaler |-> r.scaler, msgs |-> r.msgs, present |-> TRUE]

\* @st.cache_resource (line 17), mutated: no compute lock.
LockFree_NoLock(l) == TRUE

\* @st.cache_resource (line 17): the compute lock is free.
LockFree(l) == l = {}

\* A cache hit: the cached objects themselves, and the cached st.error
\* elements replayed into this run.
Hit(s) ==
  /\ got' = [got EXCEPT ![s] = [model |-> cache.model, scaler |-> cache.scaler,
                                msgs |-> cache.msgs, called |-> TRUE]]
  /\ errs' = [errs EXCEPT ![s] = errs[s] \cup cache.msgs]
  /\ pc' = [pc EXCEPT ![s] = "loaded"]

\* load_components() at line 115: the decorator first reads the cache
\* without the lock.
CacheLookup(s) ==
  /\ pc[s] = "lookup"
  /\ \/ /\ cache.present
        /\ Hit(s)
     \/ /\ ~cache.present
        /\ pc' = [pc EXCEPT ![s] = "waitlock"]
        /\ UNCHANGED << got, errs >>
  /\ UNCHANGED << files, cache, lock, loads, inputs, prediction, reached,
                  xarg, raised, clsOut, shown >>

\* On a miss the caller waits for the entry's compute lock.
AcquireLock(s) ==
  /\ pc[s] = "waitlock"
  /\ LockFree(lock)
  /\ lock' = lock \cup {s}
  /\ pc' = [pc EXCEPT ![s] = "locked"]
  /\ UNCHANGED << files, cache, loads, inputs, got, prediction, errs, reached,
                  xarg, raised, clsOut, shown >>

\* Holding the lock the caller reads the cache again; only on a second miss
\* does it run the body (lines 19-28), whose st.error goes to its page.
LockedCheck(s) ==
  /\ pc[s] = "locked"
  /\ \/ /\ cache.present
        /\ Hit(s)
        /\ lock' = lock \ {s}
        /\ UNCHANGED loads
     \/ /\ ~cache.present
        /\ LET r == load_components(files, loads + 1) IN
             /\ got' = [got EXCEPT ![s] = [model |-> r.model, scaler |-> r.scaler,
                                           msgs |-> r.msgs, called |-> FALSE]]
             /\ errs' = [errs EXCEPT ![s] = errs[s] \cup r.msgs]
        /\ loads' = loads + 1
        /\ pc' = [pc EXCEPT ![s] = "computing"]
        /\ UNCHANGED lock
  /\ UNCHANGED << files, cache, inputs, prediction, reached, xarg, raised,
                  clsOut, shown >>

\* The body has returned: the value is written to the cache, the lock is
\* released and the value handed to the caller.
FinishLoad(s) ==
  /\ pc[s] = "computing"
  /\ cache' = CacheEntry(got[s])
  /\ lock' = lock \ {s}
  /\ got' = [got EXCEPT ![s].called = TRUE]
  /\ pc' = [pc EXCEPT ![s] = "loaded"]
  /\ UNCHANGED << files, loads, inputs, prediction, errs, reached, xarg,
                  raised, clsOut, shown >>

\* Lines 117-146 with the components in hand: 'if model and scaler', the
\* try block and its except clause.  An exception the clause does not catch
\* ends the run as an unhandled fault.
Handler(s, outcomes) ==
  /\ pc[s] = "loaded"
  /\ \/ /\ ~(Truthy(got[s].model) /\ Truthy(got[s].scaler))
        /\ pc' = [pc EXCEPT ![s] = "display"]
        /\ UNCHANGED << prediction, errs, reached, xarg, raised, clsOut >>
     \/ /\ Truthy(got[s].model) /\ Truthy(got[s].scaler)
        /\ \E o \in outcomes :
             LET r == TryBody(inputs[s], o) IN
               /\ reached' = [reached EXCEPT ![s] = r.reached]
               /\ xarg' = [xarg EXCEPT ![s] = r.xarg]
               /\ raised' = [raised EXCEPT ![s] = r.raised]
               /\ clsOut' = [clsOut EXCEPT ![s] =
                    IF r.raised = "none" THEN [proba |-> o.proba, pred |-> o.pred]
                    ELSE NoOutput]
               /\ prediction' = [prediction EXCEPT ![s] =
                    IF r.raised = "none" THEN r.result ELSE prediction[s]]
               /\ errs' = [errs EXCEPT ![s] =
                    IF r.raised # "none" /\ HandlerCatches(r.raised)
                    THEN errs[s] \cup {PredictErrorMessage(r.raised)}
                    ELSE errs[s]]
               /\ pc' = [pc EXCEPT ![s] =
                    IF r.raised = "none" \/ HandlerCatches(r.raised)
                    THEN "display" ELSE "crashed"]
  /\ UNCHANGED << files, cache, lock, loads, inputs, got, shown >>

ButtonHandler(s) == Handler(s, SessionOutcomes)

\* result['class'].startswith("治疗"), line 155.
StartsWithTherapeutic(label) == label = TherapeuticLabel

\* Lines 148-171: the result card is drawn whenever
\* st.session_state.prediction is set; the confidence is printed as
\* probability*100 with one decimal (percent is in tenths of a percent).
ResultCard(p) ==
  IF p.set
  THEN [set |-> TRUE, class |-> p.class, percent |-> p.probability * 10,
        status_icon |-> IF StartsWithTherapeutic(p.class) THEN "ok" ELSE "warning"]
  ELSE NoCard

\* The rest of the script (lines 148-207); the run ends and the session
\* waits for the next interaction.
Display(s) ==
  /\ pc[s] = "display"
  /\ shown' = [shown EXCEPT ![s] = ResultCard(prediction[s])]
  /\ pc' = [pc EXCEPT ![s] = "idle"]
  /\ got' = [got EXCEPT ![s] = NotCalled]
  /\ reached' = [reached EXCEPT ![s] = {}]
  /\ xarg' = [xarg EXCEPT ![s] = << >>]
  /\ raised' = [raised EXCEPT ![s] = "none"]
  /\ clsOut' = [clsOut EXCEPT ![s] = NoOutput]
  /\ UNCHANGED << files, cache, lock, loads, inputs, prediction, errs >>

Next ==
  \E s \in Sessions :
    \/ Rerun(s)
    \/ CacheLookup(s)
    \/ AcquireLock(s)
    \/ LockedCheck(s)
    \/ FinishLoad(s)
    \/ ButtonHandler(s)
    \/ Display(s)

Spec == Init /\ [][Next]_vars

----------------------------------------------------------------------------
(* The button handler under any caller: the presentation layer is replaced *)
(* by a caller that hands lines 114-146 an arbitrary inputs dict: keys in  *)
(* another order, a key missing, a key too many, a value out of its range, *)
(* not finite or not a number.  One session, the button pressed each run.  *)

Reverse(q) == [i \in 1..Len(q) |-> q[Len(q) + 1 - i]]

Rotate(q) == Tail(q) \o << Head(q) >>

Without(q, k) == SelectSeq(q, LAMBDA x : x # k)

FeatureOf(k) == CHOOSE f \in Range(features) : f.key = k

NaN == [t |-> "float", c |-> "nan", v |-> 0]

Infinity == [t |-> "float", c |-> "inf", v |-> 0]

Text == [t |-> "str", c |-> "text", v |-> 0]

NumericText(x) == [t |-> "str", c |-> "num", v |-> x]

\* The constraint the widget of feature f enforces on its value: the
\* slider's [min_value, max_value] (whole numbers for the step-1 slider),
\* the number_input's min_value=0.0.
InConstraint(f, x) ==
  /\ x.c = "num"
  /\ CASE f.kind = "range"    -> f.min <= x.v /\ x.v <= f.max
       [] f.kind = "intrange" -> f.min <= x.v /\ x.v <= f.max /\ x.v % 100 = 0
       [] OTHER               -> 0 <= x.v

\* Values a caller may put under feature f.
CallerValues(f) ==
  { Widget(f, "default"), Widget(f, "min"), Widget(f, "max"),
    Float(f.min - 100), Float(f.max + f.default + 10000),
    NaN, Infinity, Text, NumericText(Widget(f, "default").v) }

ExtraKey == "Weight"

\* The keys whose value the caller varies, the others keep their default.
VariedKeys == {"Fg", "APTT", "Lesion site"}

\* The keys the caller may leave out ("" leaves none out).
DroppedKeys == {"", "Fg", "Dose", "Lesion site"}

CallerOrders == {FeatureKeys, Reverse(FeatureKeys), Rotate(FeatureKeys)}

CallerMap(ord, drop, extra, k, val) ==
  LET order == (IF extra THEN << ExtraKey >> ELSE << >>) \o Without(ord, drop) IN
  [order |-> order,
   vals  |-> [x \in Range(order) |->
                IF x = k THEN val
                ELSE IF x = ExtraKey THEN Float(7000)
                ELSE Widget(FeatureOf(x), "default")]]

\* The dicts a caller hands over: in each order, with or without the extra
\* key, either one key left out or one key's value varied.
CallerMaps ==
  { CallerMap(ord, drop, extra, "", Text) :
      ord \in CallerOrders, drop \in DroppedKeys, extra \in BOOLEAN }
  \cup
  UNION { { CallerMap(ord, "", extra, k, val) :
              ord \in CallerOrders, extra \in BOOLEAN,
              val \in CallerValues(FeatureOf(k)) } : k \in VariedKeys }

CoreSessions == {s \in Sessions : \A t \in Sessions : s <= t}

CoreCall(s) == \E m \in CallerMaps : StartRun(s, m, TRUE)

CoreHandler(s) == Handler(s, Outcomes)

CoreNext ==
  \E s \in CoreSessions :
    \/ CoreCall(s)
    \/ CacheLookup(s)
    \/ AcquireLock(s)
    \/ LockedCheck(s)
    \/ FinishLoad(s)
    \/ CoreHandler(s)
    \/ Display(s)

SpecCore == Init /\ [][CoreNext]_vars

----------------------------------------------------------------------------
(* Properties *)

ContractOrder ==
  << "Fg", "CDAI", "APTT", "eGFR", "D-Dimer", "ALB", "Dose", "WBC", "Age",
     "AST", "ALT", "ADA", "Lesion site" >>

HasAllKeys(inp) == \A i \in DOMAIN ContractOrder : ContractOrder[i] \in DOMAIN inp.vals

ComponentsLoaded(s) == got[s].called /\ Truthy(got[s].model) /\ Truthy(got[s].scaler)

LoadFailed(s) == got[s].called /\ ~(Truthy(got[s].model) /\ Truthy(got[s].scaler))

\* C1: whenever scaler.transform is called, its argument has exactly the
\* thirteen components, all floats, the i-th being the dict's value under the
\* i-th key of the fixed order, whatever the dict's order and extra keys; a
\* dict that lacks one of the thirteen keys never reaches scaler.transform.
C1_FixedOrder ==
  \A s \in Sessions :
    /\ "transform" \in reached[s] =>
          /\ Len(xarg[s]) = Len(ContractOrder)
          /\ \A i \in DOMAIN ContractOrder :
                /\ xarg[s][i].t = "float"
                /\ xarg[s][i].c = inputs[s].vals[ContractOrder[i]].c
                /\ xarg[s][i].v = inputs[s].vals[ContractOrder[i]].v
    /\ ~HasAllKeys(inputs[s]) => reached[s] = {} /\ xarg[s] = << >>

\* C1 witness: a dict in another order and with an extra key has reached
\* scaler.transform.
C1_Witness ==
  \E s \in Sessions :
    /\ "transform" \in reached[s]
    /\ inputs[s].order # ContractOrder
    /\ ExtraKey \in Range(inputs[s].order)
    /\ Head(inputs[s].order) = ExtraKey

\* C2: after a successful prediction the stored probability is proba[1] when
\* the predicted class is 1 and proba[0] when it is 0.
C2_ConfidenceOfPredictedClass ==
  \A s \in Sessions :
    (pc[s] = "display" /\ "predict" \in reached[s] /\ raised[s] = "none") =>
      /\ prediction[s].set
      /\ clsOut[s].pred = 1 => prediction[s].probability = clsOut[s].proba[2]
      /\ clsOut[s].pred = 0 => prediction[s].probability = clsOut[s].proba[1]

\* C2 witness: predict() = 0 with predict_proba() = [0.9, 0.1] stored 0.9.
C2_Witness ==
  \E s \in Sessions :
    /\ pc[s] = "display" /\ "predict" \in reached[s] /\ raised[s] = "none"
    /\ clsOut[s] = [proba |-> <<90, 10>>, pred |-> 0]
    /\ prediction[s].probability = 90

\* C3: load_components' body runs at most once in the process and exactly
\* once as soon as a call has returned; every call returns the cached pair;
\* once a value is cached, whatever it is, it is never replaced and the body
\* never runs again.
C3_LoadOnce ==
  /\ [](/\ loads <= 1
        /\ \A s \in Sessions :
             got[s].called =>
               /\ loads = 1
               /\ cache.present
               /\ got[s].model = cache.model
               /\ got[s].scaler = cache.scaler)
  /\ [][cache.present => (cache' = cache /\ loads' = loads)]_vars

\* C3 witness: a session that already holds a result of an earlier run has
\* called load_components again and got the pair back, with one load in all.
C3_Witness ==
  \E s \in Sessions :
    /\ pc[s] = "loaded"
    /\ got[s].called
    /\ prediction[s].set
    /\ loads = 1

\* C4: under concurrent first calls the body runs at most once, never in two
\* sessions at a time; no caller returns before the value is cached, and any
\* two callers hold the same objects.
C4_SingleFlight ==
  /\ loads <= 1
  /\ Cardinality({s \in Sessions : pc[s] = "computing"}) <= 1
  /\ \A s \in Sessions : pc[s] \in {"locked", "computing"} => s \in lock
  /\ \A s \in Sessions : got[s].called => cache.present
  /\ \A s, t \in Sessions :
       (got[s].called /\ got[t].called) =>
         (got[s].model = got[t].model /\ got[s].scaler = got[t].scaler)

\* C4 witness: one session is running the body while another, which also
\* missed the cache, waits for the lock.
C4_Witness ==
  \E s, t \in Sessions :
    /\ s # t
    /\ pc[s] = "computing"
    /\ pc[t] = "waitlock"

Missing == {n \in {ModelFile} : files.model = "missing"}
           \cup {n \in {ScalerFile} : files.scaler = "missing"}

\* C5 as stated: when one or both files are missing, load_components returns
\* no artifacts and shows a not-found message (no generic load-failure
\* message) that names every missing file.
C5_Original ==
  \A s \in Sessions :
    (got[s].called /\ Missing # {}) =>
      /\ got[s].model = PyNone /\ got[s].scaler = PyNone
      /\ \E m \in errs[s] : m.kind = "NotFound" /\ Missing \subseteq m.names
      /\ \A m \in errs[s] : m.kind # "LoadFailed"

\* The first file load_components fails on is a missing one.
FirstFailureIsMissing ==
  files.model = "missing" \/ (files.model = "ok" /\ files.scaler = "missing")

\* C5 amended: when the first file the loader fails on is missing (the model
\* file, or the scaler file after the model loaded), it returns no artifacts
\* and shows only the not-found message, which names both files whichever is
\* missing; when the model file is there but does not load, the message is
\* the generic load failure, even if the scaler file is missing.
C5_NotFoundFirst ==
  \A s \in Sessions :
    got[s].called =>
      /\ FirstFailureIsMissing =>
            /\ got[s].model = PyNone /\ got[s].scaler = PyNone
            /\ \E m \in errs[s] : m.kind = "NotFound"
            /\ \A m \in errs[s] :
                  m.kind = "NotFound" /\ m.names = {ModelFile, ScalerFile}
      /\ files.model = "corrupt" =>
            /\ got[s].model = PyNone /\ got[s].scaler = PyNone
            /\ \E m \in errs[s] : m.kind = "LoadFailed"
            /\ \A m \in errs[s] : m.kind = "LoadFailed"

\* C5 witness: only the scaler file is missing, and a call that hit the cache
\* shows the message naming both files.
C5_Witness ==
  \E s \in Sessions :
    /\ files.model = "ok" /\ files.scaler = "missing"
    /\ got[s].called
    /\ pc[s] = "loaded"
    /\ \E t \in Sessions : t # s /\ pc[t] = "idle" /\ errs[t] # {}
    /\ errs[s] = {NotFoundMessage}

\* C6 as stated: with the components loaded, a value among the thirteen that
\* is no finite number fails the prediction before any call on the scaler or
\* the classifier.
C6_Original ==
  \A s \in Sessions :
    ( /\ pc[s] = "display"
      /\ ComponentsLoaded(s)
      /\ HasAllKeys(inputs[s])
      /\ \E i \in DOMAIN ContractOrder : inputs[s].vals[ContractOrder[i]].c # "num" )
    => (raised[s] = "ValueError" /\ reached[s] = {})

\* C7: no exception leaves the handler: a failed load shows its message, an
\* exception raised in the try block shows the prediction-error message with
\* its cause; after the handler the run goes on to draw the page, and a
\* session whose last run showed an error can press the button again.
C7_FailuresReported ==
  \A s \in Sessions :
    /\ pc[s] # "crashed"
    /\ LoadFailed(s) =>
          \E m \in errs[s] : m.kind \in {"NotFound", "LoadFailed"}
    /\ raised[s] # "none" =>
          /\ pc[s] = "display"
          /\ \E m \in errs[s] : m.kind = "PredictError" /\ m.cause = raised[s]
    /\ (pc[s] = "display" /\ errs[s] # {}) => ENABLED Display(s)
    /\ (pc[s] = "idle" /\ errs[s] # {}) => ENABLED StartRun(s, inputs[s], TRUE)

\* C7 witness: the classifier's predict raised, the message is on the page
\* and the run is about to end.
C7_Witness ==
  \E s \in Sessions :
    /\ pc[s] = "display"
    /\ raised[s] = "AttributeError"
    /\ reached[s] = {"transform", "predict_proba", "predict"}
    /\ PredictErrorMessage("AttributeError") \in errs[s]

\* C8 as stated: a run that showed an error shows no prediction result.
C8_Original ==
  \A s \in Sessions :
    (pc[s] = "idle" /\ errs[s] # {}) => ~shown[s].set

\* C9: the stored label is one of the two labels; class 1 gives the
\* therapeutic label, class 0 the low one, whatever predict returns.
C9_TwoLabels ==
  \A s \in Sessions :
    /\ prediction[s].set =>
          prediction[s].class \in {"therapeutic (>=3 ug/ml)", "low (<3 ug/ml)"}
    /\ (pc[s] = "display" /\ "predict" \in reached[s] /\ raised[s] = "none") =>
          /\ clsOut[s].pred = 1 => prediction[s].class = "therapeutic (>=3 ug/ml)"
          /\ clsOut[s].pred = 0 => prediction[s].class = "low (<3 ug/ml)"

\* C9 witness: predict returned a class that is neither 0 nor 1 and a label
\* was stored.
C9_Witness ==
  \E s \in Sessions :
    /\ pc[s] = "display" /\ "predict" \in reached[s] /\ raised[s] = "none"
    /\ clsOut[s].pred \notin {0, 1}
    /\ prediction[s].class = "low (<3 ug/ml)"

\* C10 as stated: with the components loaded, a dict holding a value outside
\* its feature's constraint is rejected before any call on the scaler or the
\* classifier and stores no result.
C10_Original ==
  \A s \in Sessions :
    ( /\ pc[s] = "display"
      /\ ComponentsLoaded(s)
      /\ HasAllKeys(inputs[s])
      /\ \E i \in DOMAIN features :
           /\ inputs[s].vals[features[i].key].c = "num"
           /\ ~InConstraint(features[i], inputs[s].vals[features[i].key]) )
    => (raised[s] # "none" /\ reached[s] = {})

=============================================================================
